---- MODULE Spec2Model ----
(***************************************************************************)
(* StepwiseEstimator (sparselm/model/_stepwise.py): a composite regressor  *)
(* that fits its sub-estimators one after the other, each on its own scope *)
(* of feature columns and on the residual left by the earlier ones.        *)
(*                                                                         *)
(* Strings are sequences of tokens: "_" is one underscore, every other     *)
(* token is a run of characters without underscores, so that               *)
(* "a__fit_intercept" is <<"a","_","_","fit","_","intercept">>.            *)
(* Python indices are 0-based, TLA+ sequences 1-based: feature index i is  *)
(* position i + 1 of a row.                                                *)
(***************************************************************************)
EXTENDS Integers, Sequences, FiniteSets, TLC

\* ------------------------------------------------------------------ bounds
MaxSteps == 2      \* at most this many steps (and scopes) are passed in
MaxIdx == 2        \* feature indices offered to scopes are 0..MaxIdx
MaxParams == 2     \* at most this many keys in one set_params(**params)
NSamples == 2      \* rows of X, entries of y

MaxFeatures == MaxIdx + 1

\* ----------------------------------------------------------- Python helpers
Min(a, b) == IF a <= b THEN a ELSE b

\* list(range(n))
Range(n) == [i \in 1..n |-> i - 1]

RECURSIVE Chain(_)
\* itertools.chain(*lists), as a list
Chain(lists) ==
    IF lists = <<>> THEN <<>> ELSE Head(lists) \o Chain(Tail(lists))

RECURSIVE Insert(_, _)
Insert(x, s) ==
    IF s = <<>> THEN <<x>>
    ELSE IF x <= Head(s) THEN <<x>> \o s
    ELSE <<Head(s)>> \o Insert(x, Tail(s))

RECURSIVE Sorted(_)
\* sorted(list)
Sorted(s) == IF s = <<>> THEN <<>> ELSE Insert(Head(s), Sorted(Tail(s)))

\* set(list)
ToSet(s) == {s[i] : i \in 1..Len(s)}

RECURSIVE SortedSet(_)
\* sorted(a set): its elements in increasing order
SortedSet(S) ==
    IF S = {} THEN <<>>
    ELSE LET m == CHOOSE x \in S : \A z \in S : x <= z
         IN  <<m>> \o SortedSet(S \ {m})

\* tuple.index(x): the 0-based place of the first x, -1 standing for the
\* ValueError raised when x is absent
IndexOf(t, x) ==
    IF \E i \in 1..Len(t) : t[i] = x
    THEN (CHOOSE i \in 1..Len(t) : t[i] = x /\ \A j \in 1..(i - 1) : t[j] # x) - 1
    ELSE -1

\* ------------------------------------------------------------------ strings
US == "_"
DUNDER == <<US, US>>

RECURSIVE Split(_)
\* str.split("__"): cut at every occurrence of "__", scanning from the left
Split(s) ==
    IF \E i \in 1..(Len(s) - 1) : s[i] = US /\ s[i + 1] = US
    THEN LET i == CHOOSE i \in 1..(Len(s) - 1) :
                      /\ s[i] = US /\ s[i + 1] = US
                      /\ \A j \in 1..(i - 1) : ~(s[j] = US /\ s[j + 1] = US)
         IN  <<SubSeq(s, 1, i - 1)>> \o Split(SubSeq(s, i + 2, Len(s)))
    ELSE <<s>>

RECURSIVE Join(_)
\* "__".join(parts)
Join(parts) ==
    IF parts = <<>> THEN <<>>
    ELSE IF Len(parts) = 1 THEN parts[1]
    ELSE parts[1] \o DUNDER \o Join(Tail(parts))

\* the native hyper-parameters of a sub-estimator
alpha == <<"alpha">>
fit_intercept == <<"fit", US, "intercept">>

NativeNames == <<alpha, fit_intercept>>

\* np.nan, the "not yet assigned" mark of coef_
NaN == -1000

\* ------------------------------------------------------------------- state
VARIABLES
    pc,                          \* "new": arguments chosen; "ready": constructed;
                                 \* "failed": __init__ raised
    steps,                       \* argument: <<[name, estimator]>>, estimator an object id
    estimator_feature_indices,   \* argument: one scope (list of indices) per step
    est,                         \* the heap: object id -> sub-estimator object
    _step_names, _estimators, _estimator_feature_indices, _full_scope,
    attrs, coef_, intercept_,    \* fitted state; attrs: which of the two exist
    op, raised, args, ret,       \* the last call: its name, exception, arguments, result
    calls,                       \* the sub-estimator calls the last call made, in order
    writes,                      \* writes[i + 1]: assignments to coef_[i] by the last fit
    before                       \* every object's parameters when the last call began

vars == <<pc, steps, estimator_feature_indices, est,
          _step_names, _estimators, _estimator_feature_indices, _full_scope,
          attrs, coef_, intercept_, op, raised, args, ret, calls, writes,
          before>>

self_fields == <<_step_names, _estimators, _estimator_feature_indices, _full_scope>>
fitted_state == <<attrs, coef_, intercept_>>
arguments == <<steps, estimator_feature_indices>>

\* object 0 is an instance of StepwiseEstimator, objects 1..MaxSteps are
\* plain linear sub-estimators
Objs == 0..MaxSteps

NoArgs == [params |-> <<>>, X |-> <<>>, y |-> <<>>, sample_weight |-> <<>>,
           deep |-> TRUE]

ParamsOf(heap) == [o \in DOMAIN heap |-> heap[o].params]

\* ------------------------------------------------------------ construction
\* line 49
CountMismatch(st, efi) == Len(st) # Len(efi)

\* line 51
FullScope(efi) == SortedSet(ToSet(Chain(efi)))

\* the refusal without the comparison against the sorted concatenation
ScopesRefused_NoOverlapCheck(efi) ==
    FullScope(efi) # Range(Len(FullScope(efi)))

\* lines 52-54: the condition under which the scopes are refused
ScopesRefused(efi) ==
    \/ FullScope(efi) # Sorted(Chain(efi))
    \/ FullScope(efi) # Range(Len(FullScope(efi)))

\* lines 59-60
Nested(st, heap) ==
    \E i \in 1..Len(st) : heap[st[i].estimator].kind = "StepwiseEstimator"

\* the slice taken one place too far: self._estimators[2:]
ForceNoIntercept_FromThird(heap, ests) ==
    [o \in DOMAIN heap |->
        IF Len(ests) > 1 /\ \E i \in 3..Len(ests) : ests[i] = o
        THEN [heap[o] EXCEPT !.params = [@ EXCEPT ![fit_intercept] = FALSE]]
        ELSE heap[o]]

\* lines 71-73: every estimator after the first loses its intercept
ForceNoIntercept(heap, ests) ==
    [o \in DOMAIN heap |->
        IF Len(ests) > 1 /\ \E i \in 2..Len(ests) : ests[i] = o
        THEN [heap[o] EXCEPT !.params = [@ EXCEPT ![fit_intercept] = FALSE]]
        ELSE heap[o]]

\* StepwiseEstimator.__init__(steps, estimator_feature_indices)
__init__ ==
    /\ pc = "new"
    /\ op' = "__init__"
    /\ args' = NoArgs /\ ret' = <<>> /\ calls' = <<>>
    /\ before' = ParamsOf(est)
    /\ UNCHANGED <<arguments, fitted_state, writes>>
    /\ IF \/ CountMismatch(steps, estimator_feature_indices)
          \/ ScopesRefused(estimator_feature_indices)
          \/ Nested(steps, est)
       THEN /\ raised' = "ValueError"
            /\ pc' = "failed"
            /\ UNCHANGED <<est, self_fields>>
       ELSE /\ raised' = "none"
            /\ pc' = "ready"
            /\ _step_names' = [i \in 1..Len(steps) |-> steps[i].name]
            /\ _estimators' = [i \in 1..Len(steps) |-> steps[i].estimator]
            /\ _estimator_feature_indices' = estimator_feature_indices
            /\ _full_scope' = FullScope(estimator_feature_indices)
            /\ est' = ForceNoIntercept(est, [i \in 1..Len(steps) |-> steps[i].estimator])

\* ------------------------------------------------------- inputs of __init__
StepLetter(i) == <<"a", "b", "c", "d", "e">>[i]

\* a heap whose plain estimators have fit_intercept as fi says
Heap(fi) ==
    [o \in Objs |->
        [kind |-> IF o = 0 THEN "StepwiseEstimator" ELSE "estimator",
         params |-> (alpha :> 1) @@ (fit_intercept :> fi[o]),
         fitted |-> FALSE, coef_ |-> <<>>, intercept_ |-> 0]]

\* the fit_intercept settings of the k objects in use (the others are left TRUE)
Heaps(k) ==
    {Heap([o \in Objs |-> IF o \in 1..k THEN f[o] ELSE TRUE]) :
        f \in [1..k -> BOOLEAN]}

\* which object each of k steps holds: all distinct, all one object, or the
\* last one a StepwiseEstimator
Holdings(k) ==
    {[i \in 1..k |-> i], [i \in 1..k |-> 1], [i \in 1..k |-> IF i = k THEN 0 ELSE i]}

\* every list of k scopes with t indices in all, drawn from 0..MaxIdx
ScopeLists(k, t) ==
    {[i \in 1..k |->
        SubSeq(flat, (IF i = 1 THEN 0 ELSE cut[i - 1]) + 1,
                     IF i = k THEN t ELSE cut[i])] :
        flat \in [1..t -> 0..MaxIdx],
        cut \in {c \in [1..(k - 1) -> 0..t] :
                    \A i \in 1..(k - 2) : c[i] <= c[i + 1]}}

AllScopeLists ==
    UNION {ScopeLists(k, t) : k \in 1..MaxSteps, t \in 0..MaxFeatures}

InitCommon ==
    /\ pc = "new"
    /\ _step_names = <<>> /\ _estimators = <<>>
    /\ _estimator_feature_indices = <<>> /\ _full_scope = <<>>
    /\ attrs = {} /\ coef_ = <<>> /\ intercept_ = 0
    /\ op = "none" /\ raised = "none" /\ args = NoArgs /\ ret = <<>>
    /\ calls = <<>> /\ writes = <<>>
    /\ before = ParamsOf(est)

\* construction alone, over every argument list within the bounds
InitCtor ==
    /\ \E k \in 1..MaxSteps :
         /\ \E h \in Holdings(k) :
              steps = [i \in 1..k |-> [name |-> <<StepLetter(i)>>, estimator |-> h[i]]]
         /\ est \in Heaps(k)
    /\ estimator_feature_indices \in AllScopeLists
    /\ InitCommon

NextCtor == __init__

SpecCtor == InitCtor /\ [][NextCtor]_vars

\* ------------------------------------------------------------ dictionaries
\* A dict is the sequence of its <<key, value>> items in insertion order.
None == "None"

DictKeys(d) == {d[i][1] : i \in 1..Len(d)}

\* d[k] = v
DictSet(d, k, v) ==
    IF k \in DictKeys(d)
    THEN [i \in 1..Len(d) |-> IF d[i][1] = k THEN <<k, v>> ELSE d[i]]
    ELSE Append(d, <<k, v>>)

\* m.get(k) of a mapping held as a function
Get(m, k) == IF k \in DOMAIN m THEN m[k] ELSE None

\* ------------------------------------------------------- the sub-estimators
\* What the composite requires of a step's estimator: a linear model with
\* its own get_params / set_params / fit / predict.

\* estimator._get_param_names()
est_get_param_names(e) == NativeNames

\* estimator.get_params(deep)
est_get_params(e, deep) == e.params

RECURSIVE est_set_params(_, _)
\* estimator.set_params(**kv): the items are set in order, and the first one
\* that is no parameter of the estimator raises
est_set_params(e, kv) ==
    IF kv = <<>> THEN [e |-> e, raised |-> FALSE]
    ELSE IF Head(kv)[1] \notin DOMAIN e.params THEN [e |-> e, raised |-> TRUE]
    ELSE est_set_params([e EXCEPT !.params[Head(kv)[1]] = Head(kv)[2]], Tail(kv))

\* ------------------------------------------------------ parameter namespace
\* the names joined with a single underscore
_get_param_names_OneUnderscore ==
    Chain([i \in 1..Len(_step_names) |->
        LET names == est_get_param_names(est[_estimators[i]])
        IN  [j \in 1..Len(names) |-> _step_names[i] \o <<US>> \o names[j]]])

\* lines 76-83
_get_param_names ==
    Chain([i \in 1..Len(_step_names) |->
        LET names == est_get_param_names(est[_estimators[i]])
        IN  [j \in 1..Len(names) |-> _step_names[i] \o DUNDER \o names[j]]])

\* lines 85-91; step_ind = -1 stands for the ValueError of tuple.index
_get_step_param_name(name) ==
    LET splitted == Split(name)
        step_name == splitted[1]
    IN  [step_ind |-> IndexOf(_step_names, step_name),
         param_name |-> Join(Tail(splitted))]

RECURSIVE GetParamsLoop(_, _, _, _)
\* lines 104-106
GetParamsLoop(names, heap, deep, out) ==
    IF names = <<>> THEN [raised |-> "none", out |-> out]
    ELSE LET r == _get_step_param_name(Head(names))
         IN  IF r.step_ind = -1 THEN [raised |-> "ValueError", out |-> <<>>]
             ELSE GetParamsLoop(Tail(names), heap, deep,
                      DictSet(out, Head(names),
                          Get(est_get_params(heap[_estimators[r.step_ind + 1]], deep),
                              r.param_name)))

\* lines 93-107: get_params(deep), as [raised, out]
get_params(heap, deep) == GetParamsLoop(_get_param_names, heap, deep, <<>>)

RECURSIVE Route(_, _)
\* lines 125-128: params_for_estimators, or the lookup error
Route(params, pfe) ==
    IF params = <<>> THEN [raised |-> "none", pfe |-> pfe]
    ELSE LET r == _get_step_param_name(Head(params)[1])
         IN  IF r.step_ind = -1 THEN [raised |-> "ValueError", pfe |-> pfe]
             ELSE Route(Tail(params),
                      [pfe EXCEPT ![r.step_ind + 1] =
                          DictSet(@, r.param_name, Head(params)[2])])

SetCall(i, kv) ==
    [meth |-> "set_params", step |-> i - 1, params |-> kv,
     X |-> <<>>, y |-> <<>>, sample_weight |-> <<>>, ret |-> <<>>]

RECURSIVE Distribute_SkipEmpty(_, _, _, _)
\* the loop calling only the estimators that were given something
Distribute_SkipEmpty(i, pfe, heap, log) ==
    IF i > Len(_estimators) THEN [est |-> heap, calls |-> log, raised |-> "none"]
    ELSE IF pfe[i] = <<>> THEN Distribute_SkipEmpty(i + 1, pfe, heap, log)
    ELSE LET o == _estimators[i]
             r == est_set_params(heap[o], pfe[i])
             h == [heap EXCEPT ![o] = r.e]
             l == Append(log, SetCall(i, pfe[i]))
         IN  IF r.raised THEN [est |-> h, calls |-> l, raised |-> "SubError"]
             ELSE Distribute_SkipEmpty(i + 1, pfe, h, l)

RECURSIVE Distribute(_, _, _, _)
\* lines 129-130: estimator.set_params(**estimator_params) for every step
Distribute(i, pfe, heap, log) ==
    IF i > Len(_estimators) THEN [est |-> heap, calls |-> log, raised |-> "none"]
    ELSE LET o == _estimators[i]
             r == est_set_params(heap[o], pfe[i])
             h == [heap EXCEPT ![o] = r.e]
             l == Append(log, SetCall(i, pfe[i]))
         IN  IF r.raised THEN [est |-> h, calls |-> l, raised |-> "SubError"]
             ELSE Distribute(i + 1, pfe, h, l)

RECURSIVE set_params_Eager(_, _)
\* each item handed to its estimator as soon as it is resolved
set_params_Eager(heap, params) ==
    IF params = <<>> THEN [est |-> heap, calls |-> <<>>, raised |-> "none"]
    ELSE LET r == _get_step_param_name(Head(params)[1])
         IN  IF r.step_ind = -1
             THEN [est |-> heap, calls |-> <<>>, raised |-> "ValueError"]
             ELSE LET o == _estimators[r.step_ind + 1]
                      kv == <<<<r.param_name, Head(params)[2]>>>>
                      one == est_set_params(heap[o], kv)
                      rest == set_params_Eager([heap EXCEPT ![o] = one.e], Tail(params))
                  IN  IF one.raised
                      THEN [est |-> heap, calls |-> <<SetCall(r.step_ind + 1, kv)>>,
                            raised |-> "SubError"]
                      ELSE [rest EXCEPT
                               !.calls = <<SetCall(r.step_ind + 1, kv)>> \o @]

\* lines 109-132: set_params(**params), as [est, calls, raised]
set_params(heap, params) ==
    IF params = <<>>
    THEN [est |-> heap, calls |-> <<>>, raised |-> "none"]
    ELSE LET routed == Route(params, [i \in 1..Len(_estimators) |-> <<>>])
         IN  IF routed.raised # "none"
             THEN [est |-> heap, calls |-> <<>>, raised |-> routed.raised]
             ELSE Distribute(1, routed.pfe, heap, <<>>)

\* the call get_params(deep)
GetParams(deep) ==
    /\ pc = "ready"
    /\ op' = "get_params"
    /\ args' = [NoArgs EXCEPT !.deep = deep]
    /\ before' = ParamsOf(est)
    /\ \E r \in {get_params(est, deep)} :
           /\ raised' = r.raised
           /\ ret' = r.out
    /\ calls' = <<>>
    /\ UNCHANGED <<pc, arguments, est, self_fields, fitted_state, writes>>

\* the call set_params(**params)
SetParams(params) ==
    /\ pc = "ready"
    /\ op' = "set_params"
    /\ args' = [NoArgs EXCEPT !.params = params]
    /\ before' = ParamsOf(est)
    /\ \E r \in {set_params(est, params)} :
           /\ est' = r.est
           /\ calls' = r.calls
           /\ raised' = r.raised
    /\ ret' = <<>>
    /\ UNCHANGED <<pc, arguments, self_fields, fitted_state, writes>>

\* the call set_params(**get_params())
SetParamsFromGet ==
    /\ pc = "ready"
    /\ get_params(est, TRUE).raised = "none"
    /\ SetParams(get_params(est, TRUE).out)

\* ------------------------------------------- inputs of the parameter calls
\* the keys offered to set_params: parameters of the first and of the last
\* step, a step that is not registered, a parameter no estimator has
KeyList ==
    LET first == _step_names[1]
        last == _step_names[Len(_step_names)]
    IN  << <<first \o DUNDER \o alpha, {1, 2}>>,
           <<<<"z">> \o DUNDER \o alpha, {1}>>,
           <<last \o DUNDER \o fit_intercept, {TRUE, FALSE}>>,
           <<last \o DUNDER \o alpha, {1, 2}>>,
           <<first \o DUNDER \o <<"beta">>, {1}>> >>

RECURSIVE ItemLists(_, _)
\* the dicts whose keys are taken, in order, from places from..Len(KeyList)
\* of KeyList, n items at most, no key twice
ItemLists(from, n) ==
    IF n = 0 \/ from > Len(KeyList) THEN {<<>>}
    ELSE ItemLists(from + 1, n)
         \cup {<<<<KeyList[from][1], v>>>> \o rest :
                  v \in KeyList[from][2],
                  rest \in {r \in ItemLists(from + 1, n - 1) :
                               KeyList[from][1] \notin DictKeys(r)}}

ParamInputs == ItemLists(1, MaxParams)

\* the step names offered: letters; the last name the first letter with one
\* underscore after it; the last name the first letter again; the last name
\* with a double underscore inside
NameTuples(k) ==
    {[i \in 1..k |-> <<StepLetter(i)>>],
     [i \in 1..k |-> IF i = k THEN <<StepLetter(1), US>> ELSE <<StepLetter(i)>>],
     [i \in 1..k |-> IF i = k THEN <<StepLetter(1)>> ELSE <<StepLetter(i)>>],
     [i \in 1..k |-> IF i = k THEN <<StepLetter(1), US, US, "x">> ELSE <<StepLetter(i)>>]}

\* k steps, distinct estimators or one estimator for all, one feature each
InitParams ==
    /\ \E k \in 1..MaxSteps :
         /\ \E h \in {[i \in 1..k |-> i], [i \in 1..k |-> 1]}, nm \in NameTuples(k) :
              steps = [i \in 1..k |-> [name |-> nm[i], estimator |-> h[i]]]
         /\ est \in Heaps(k)
         /\ estimator_feature_indices = [i \in 1..k |-> <<i - 1>>]
    /\ InitCommon

NextParams ==
    \/ __init__
    \/ \E deep \in BOOLEAN : GetParams(deep)
    \/ pc = "ready" /\ \E params \in ParamInputs : SetParams(params)
    \/ SetParamsFromGet

SpecParams == InitParams /\ [][NextParams]_vars

\* --------------------------------------------------------------------- fit
\* X.shape[1]; X is the sequence of its rows
NCols(X) == Len(X[1])

\* X[:, scope]
Cols(X, scope) ==
    [r \in 1..Len(X) |-> [j \in 1..Len(scope) |-> X[r][scope[j] + 1]]]

RECURSIVE Dot(_, _)
Dot(row, w) ==
    IF row = <<>> THEN 0 ELSE Head(row) * Head(w) + Dot(Tail(row), Tail(w))

\* estimator.fit(Xs, y, sample_weight): some coefficients, one per column of
\* Xs, and an intercept that is 0 unless fit_intercept is set; out is what
\* the solver comes up with
est_fit(e, Xs, y, sample_weight, out) ==
    [e EXCEPT !.fitted = TRUE,
              !.coef_ = [j \in 1..NCols(Xs) |-> out.w * j],
              !.intercept_ = IF e.params[fit_intercept] THEN out.b ELSE 0]

\* estimator.predict(Xs) of a linear model: Xs @ coef_ + intercept_ (NaN
\* stands for the shape error when Xs has not the columns coef_ was fitted on)
est_predict(e, Xs) ==
    [r \in 1..Len(Xs) |->
        IF Len(e.coef_) = NCols(Xs) THEN Dot(Xs[r], e.coef_) + e.intercept_
        ELSE NaN]

\* the inherited LinearModel.predict(X): X @ coef_ + intercept_
predict(X) == [r \in 1..Len(X) |-> Dot(X[r], coef_) + intercept_]

\* the coefficients written to the first places, whatever the scope
Scatter_Leading(coef, scope, w) ==
    [p \in 1..Len(coef) |-> IF p <= Len(scope) THEN w[p] ELSE coef[p]]

\* line 178: coef_[scope] = w
Scatter(coef, scope, w) ==
    [p \in 1..Len(coef) |->
        IF \E j \in 1..Len(scope) : scope[j] + 1 = p
        THEN w[CHOOSE j \in 1..Len(scope) :
                   /\ scope[j] + 1 = p
                   /\ \A l \in (j + 1)..Len(scope) : scope[l] + 1 # p]
        ELSE coef[p]]

\* the residual left as it was
Residual_Kept(residuals, pred) == residuals

\* line 179: residuals - estimator.predict(X[:, scope])
Residual(residuals, pred) ==
    [r \in 1..Len(residuals) |-> residuals[r] - pred[r]]

FitCall(i, Xs, y, sw) ==
    [meth |-> "fit", step |-> i - 1, params |-> <<>>,
     X |-> Xs, y |-> y, sample_weight |-> sw, ret |-> <<>>]

PredictCall(i, Xs, pred) ==
    [meth |-> "predict", step |-> i - 1, params |-> <<>>,
     X |-> Xs, y |-> <<>>, sample_weight |-> <<>>, ret |-> pred]

\* estimator.fit raises: its solver fails, or Xs has no column to fit
est_fit_raises(Xs, failing) == failing \/ NCols(Xs) = 0

RECURSIVE FitLoop(_, _, _, _, _)
\* lines 176-179, from step i on; outs.failAt is the step whose solver fails
\* (0: none), outs.w[i] and outs.b what step i's solver comes up with
FitLoop(i, X, sw, outs, st) ==
    IF i > Len(_estimators) THEN st
    ELSE LET o == _estimators[i]
             scope == _estimator_feature_indices[i]
             Xs == Cols(X, scope)
             fitting == Append(st.calls, FitCall(i, Xs, st.residuals, sw))
         IN  IF est_fit_raises(Xs, outs.failAt = i)
             THEN [st EXCEPT !.calls = fitting, !.raised = "SubError"]
             ELSE LET e == est_fit(st.est[o], Xs, st.residuals, sw,
                                   [w |-> outs.w[i], b |-> outs.b])
                      pred == est_predict(e, Xs)
                  IN  FitLoop(i + 1, X, sw, outs,
                          [est |-> [st.est EXCEPT ![o] = e],
                           coef |-> Scatter(st.coef, scope, e.coef_),
                           writes |-> [p \in 1..Len(st.writes) |->
                                         st.writes[p] + Cardinality(
                                            {j \in 1..Len(scope) : scope[j] + 1 = p})],
                           residuals |-> Residual(st.residuals, pred),
                           calls |-> Append(fitting, PredictCall(i, Xs, pred)),
                           raised |-> "none"])

\* lines 168-172
CoverageRefused(X) == _full_scope # Range(NCols(X))

\* lines 174-184: the fit proper, as the new
\* [est, attrs, coef_, intercept_, calls, writes, raised]
FitBody(heap, X, y, sw, outs) ==
    LET r == FitLoop(1, X, sw, outs,
                 [est |-> heap, coef |-> [p \in 1..NCols(X) |-> NaN],
                  writes |-> [p \in 1..NCols(X) |-> 0],
                  residuals |-> y, calls |-> <<>>, raised |-> "none"])
        first == r.est[_estimators[1]]
    IN  [est |-> r.est, coef_ |-> r.coef, calls |-> r.calls, writes |-> r.writes,
         raised |-> r.raised,
         attrs |-> IF r.raised = "none" THEN attrs \cup {"coef_", "intercept_"}
                   ELSE attrs \cup {"coef_"},
         intercept_ |-> IF r.raised # "none" THEN intercept_
                        ELSE IF first.params[fit_intercept] THEN first.intercept_
                        ELSE 0]

\* coef_ allocated before the coverage check
fit_AllocateFirst(heap, X, y, sw, outs) ==
    IF CoverageRefused(X)
    THEN [est |-> heap, coef_ |-> [p \in 1..NCols(X) |-> NaN], calls |-> <<>>,
          writes |-> <<>>, raised |-> "ValueError",
          attrs |-> attrs \cup {"coef_"}, intercept_ |-> intercept_]
    ELSE FitBody(heap, X, y, sw, outs)

\* lines 161-187: fit(X, y, sample_weight)
fit(heap, X, y, sw, outs) ==
    IF CoverageRefused(X)
    THEN [est |-> heap, coef_ |-> coef_, calls |-> <<>>, writes |-> <<>>,
          raised |-> "ValueError", attrs |-> attrs, intercept_ |-> intercept_]
    ELSE FitBody(heap, X, y, sw, outs)

\* the call fit(X, y, sample_weight)
Fit(X, y, sw, outs) ==
    /\ pc = "ready"
    /\ op' = "fit"
    /\ args' = [NoArgs EXCEPT !.X = X, !.y = y, !.sample_weight = sw]
    /\ before' = ParamsOf(est)
    /\ ret' = <<>>
    /\ \E r \in {fit(est, X, y, sw, outs)} :
           /\ est' = r.est
           /\ attrs' = r.attrs
           /\ coef_' = r.coef_
           /\ intercept_' = r.intercept_
           /\ calls' = r.calls
           /\ writes' = r.writes
           /\ raised' = r.raised
    /\ UNCHANGED <<pc, arguments, self_fields>>

\* ------------------------------------------------------------ inputs of fit
Samples == 1..NSamples

\* two data sets of n columns: [X, y, sample_weight]; <<>> is sample_weight=None
Data(n) ==
    {[X |-> [r \in Samples |-> [c \in 1..n |-> r + c]],
      y |-> [r \in Samples |-> 3 * r],
      sample_weight |-> <<>>],
     [X |-> [r \in Samples |-> [c \in 1..n |-> r * c]],
      y |-> [r \in Samples |-> 1],
      sample_weight |-> [r \in Samples |-> 1]]}

AllData == UNION {Data(n) : n \in 0..MaxFeatures}

\* what the solvers of k steps may come up with; the one that may fail is
\* the last
Outcomes(k) ==
    [w : {[i \in 1..k |-> 1], [i \in 1..k |-> i + 1]}, b : {1, 2}, failAt : {0, k}]

NoOutcome == [w |-> <<>>, b |-> 1, failAt |-> 0]

\* n features dealt to k steps: in blocks, or one by one and listed downwards
Blocks(k, n) ==
    [i \in 1..k |-> [j \in 1..(((i * n) \div k) - (((i - 1) * n) \div k)) |->
                        (((i - 1) * n) \div k) + j - 1]]

Dealt(k, n) ==
    [i \in 1..k |->
        LET mine == {x \in 0..(n - 1) : x % k = i - 1}
            up == SortedSet(mine)
        IN  [j \in 1..Len(up) |-> up[Len(up) + 1 - j]]]

\* the keys offered to set_params between fits
InterceptInputs ==
    {<<>>} \cup
    {<< <<_step_names[Len(_step_names)] \o DUNDER \o fit_intercept, v>> >> :
        v \in BOOLEAN}

Init ==
    /\ \E k \in 1..MaxSteps :
         /\ \E h \in {[i \in 1..k |-> i], [i \in 1..k |-> 1]} :
              steps = [i \in 1..k |-> [name |-> <<StepLetter(i)>>, estimator |-> h[i]]]
         /\ est \in Heaps(k)
         /\ \E n \in 0..MaxFeatures :
              estimator_feature_indices \in {Blocks(k, n), Dealt(k, n)}
    /\ InitCommon

Next ==
    \/ __init__
    \/ GetParams(TRUE)
    \/ pc = "ready" /\ \E params \in InterceptInputs : SetParams(params)
    \/ /\ pc = "ready"
       /\ \E d \in AllData :
            \E outs \in IF CoverageRefused(d.X) THEN {NoOutcome}
                        ELSE Outcomes(Len(_estimators)) :
                Fit(d.X, d.y, d.sample_weight, outs)

Spec == Init /\ [][Next]_vars

\* ================================================================== claims
FitIntercept(o) == est[o].params[fit_intercept]

HasRepeat(l) == \E i, j \in 1..Len(l) : i # j /\ l[i] = l[j]
HasGap(l) == \E x \in ToSet(l) : x > 0 /\ (x - 1) \notin ToSet(l)
NotFromZero(l) == l # <<>> /\ 0 \notin ToSet(l)
ExactPartition(efi) ==
    \E n \in 0..Len(Chain(efi)) : Sorted(Chain(efi)) = Range(n)

Constructed == op = "__init__" /\ raised = "none"

\* C1: with as many scopes as steps and no nested composite, construction
\* succeeds exactly when the sorted concatenation of the scopes is
\* [0, ..., n-1]; a repeated index (across scopes or inside one), a gap or a
\* start above 0 raises ValueError, whatever the order of scopes and indices.
C1_PartitionValidity ==
    (/\ op = "__init__"
     /\ Len(steps) = Len(estimator_feature_indices)
     /\ ~Nested(steps, est)) =>
        LET all == Chain(estimator_feature_indices) IN
        /\ (pc = "ready") <=> ExactPartition(estimator_feature_indices)
        /\ (pc = "ready") <=> (raised = "none")
        /\ (HasRepeat(all) \/ HasGap(all) \/ NotFromZero(all)) =>
              (pc = "failed" /\ raised = "ValueError")

\* an exact partition given out of order, with two scopes, accepted
C1_Witness ==
    /\ Constructed /\ pc = "ready"
    /\ Len(estimator_feature_indices) = 2
    /\ Len(Chain(estimator_feature_indices)) = MaxFeatures
    /\ Chain(estimator_feature_indices) # Sorted(Chain(estimator_feature_indices))

\* C2 as stated: after a successful construction every step but the first
\* has fit_intercept False and the first step's is what the caller set.
C2_Original ==
    Constructed =>
        /\ \A i \in 2..Len(_estimators) : FitIntercept(_estimators[i]) = FALSE
        /\ FitIntercept(_estimators[1]) = before[_estimators[1]][fit_intercept]

\* C2 amended: after a successful construction every step but the first has
\* fit_intercept False whatever it was before, and the first step's is what
\* the caller set unless the first step's estimator object is also the
\* estimator of a later step.
C2_SingleIntercept ==
    Constructed =>
        /\ \A i \in 2..Len(_estimators) : FitIntercept(_estimators[i]) = FALSE
        /\ (\A i \in 2..Len(_estimators) : _estimators[i] # _estimators[1]) =>
              FitIntercept(_estimators[1]) = before[_estimators[1]][fit_intercept]

\* two distinct estimators that both came with fit_intercept True
C2_Witness ==
    /\ Constructed
    /\ Len(_estimators) >= 2
    /\ _estimators[2] # _estimators[1]
    /\ before[_estimators[2]][fit_intercept] = TRUE
    /\ FitIntercept(_estimators[2]) = FALSE
    /\ FitIntercept(_estimators[1]) = TRUE

\* ---- parameter namespace
ContainsDunder(s) == \E i \in 1..(Len(s) - 1) : s[i] = US /\ s[i + 1] = US

\* the step component of a qualified name: what stands before its first "__"
KeyStep(name) ==
    IF ContainsDunder(name)
    THEN SubSeq(name, 1,
             (CHOOSE i \in 1..(Len(name) - 1) :
                 /\ name[i] = US /\ name[i + 1] = US
                 /\ \A j \in 1..(i - 1) : ~(name[j] = US /\ name[j + 1] = US)) - 1)
    ELSE name

Registered(n) == \E i \in 1..Len(_step_names) : _step_names[i] = n

UniqueNames == \A i, j \in 1..Len(_step_names) : i # j => _step_names[i] # _step_names[j]
NoDunderNames == \A i \in 1..Len(_step_names) : ~ContainsDunder(_step_names[i])
NoTrailingUnderscore ==
    \A i \in 1..Len(_step_names) :
        _step_names[i] = <<>> \/ _step_names[i][Len(_step_names[i])] # US

\* the heap as it was, parameters only, when the last call began
BeforeHeap == [o \in DOMAIN before |-> [params |-> before[o]]]

NoDuplicates(l) == ~HasRepeat(l)

\* every qualified name resolves to the step and native name it was built from
ResolvesBack ==
    LET names == _get_param_names
        n == Len(NativeNames)
    IN  /\ Len(names) = Len(_step_names) * n
        /\ \A i \in 1..Len(_step_names), j \in 1..n :
              _get_step_param_name(names[(i - 1) * n + j]) =
                  [step_ind |-> i - 1,
                   param_name |-> est_get_param_names(est[_estimators[i]])[j]]

\* the last call was set_params(**get_params())
WasRoundTrip ==
    /\ op = "set_params"
    /\ get_params(BeforeHeap, TRUE).raised = "none"
    /\ args.params = get_params(BeforeHeap, TRUE).out

RoundTripKept ==
    WasRoundTrip =>
        /\ raised = "none"
        /\ ParamsOf(est) = before
        /\ get_params(est, TRUE) = get_params(BeforeHeap, TRUE)

\* C3 as stated: with unique step names that contain no "__", the qualified
\* names have no duplicates, each resolves back to its (step, parameter) and
\* set_params(**get_params()) changes neither get_params() nor any
\* sub-estimator's parameters.
C3_Original ==
    (pc = "ready" /\ UniqueNames /\ NoDunderNames) =>
        /\ NoDuplicates(_get_param_names)
        /\ ResolvesBack
        /\ get_params(est, TRUE).raised = "none"
        /\ RoundTripKept

\* C3 amended: the same, for unique step names that contain no "__" and do
\* not end with an underscore.
C3_NamespaceBijection ==
    (pc = "ready" /\ UniqueNames /\ NoDunderNames /\ NoTrailingUnderscore) =>
        /\ NoDuplicates(_get_param_names)
        /\ ResolvesBack
        /\ get_params(est, TRUE).raised = "none"
        /\ RoundTripKept

\* a round trip over two steps with well-formed names, after a parameter of
\* the last step was changed
C3_Witness ==
    /\ WasRoundTrip /\ raised = "none"
    /\ UniqueNames /\ NoDunderNames /\ NoTrailingUnderscore
    /\ Len(_step_names) >= 2
    /\ Len(args.params) = Len(_step_names) * Len(NativeNames)
    /\ est[_estimators[Len(_estimators)]].params[alpha] = 2

RECURSIVE AddressedIn(_, _, _)
\* the items of params whose name resolves to step i (0-based), prefix stripped
AddressedIn(params, i, acc) ==
    IF params = <<>> THEN acc
    ELSE LET r == _get_step_param_name(Head(params)[1])
         IN  AddressedIn(Tail(params), i,
                 IF r.step_ind = i THEN DictSet(acc, r.param_name, Head(params)[2])
                 ELSE acc)

Addressed(i) == AddressedIn(args.params, i, <<>>)

CallsTo(i) == {c \in 1..Len(calls) : calls[c].meth = "set_params" /\ calls[c].step = i}

\* an estimator object no addressed step holds keeps its parameters
UnaddressedKept ==
    \A o \in DOMAIN est :
        (\A i \in 1..Len(_estimators) : _estimators[i] = o => Addressed(i - 1) = <<>>)
            => est[o].params = before[o]

SetReturned == op = "set_params" /\ raised = "none"

\* C7 as stated: a non-empty set_params calls only the sub-estimators that
\* are addressed, each with exactly its own parameters; the others get no
\* call and keep their parameters; an empty set_params calls nobody.
C7_Original ==
    (SetReturned /\ UniqueNames /\ NoDunderNames /\ NoTrailingUnderscore) =>
        /\ args.params = <<>> => calls = <<>>
        /\ \A i \in 1..Len(_estimators) :
              IF Addressed(i - 1) # <<>>
              THEN \E c \in CallsTo(i - 1) :
                      /\ CallsTo(i - 1) = {c}
                      /\ calls[c].params = Addressed(i - 1)
              ELSE CallsTo(i - 1) = {}
        /\ UnaddressedKept

\* C7 amended: a non-empty set_params that returns has called set_params
\* once on every step's sub-estimator, in step order, each with exactly the
\* parameters addressed to that step (none for a step that is not
\* addressed); an estimator no addressed step holds keeps its parameters;
\* an empty set_params calls nobody.
C7_Routing ==
    SetReturned =>
        /\ args.params = <<>> => (calls = <<>> /\ ParamsOf(est) = before)
        /\ args.params # <<>> =>
              /\ Len(calls) = Len(_estimators)
              /\ \A i \in 1..Len(_estimators) :
                    /\ calls[i].meth = "set_params"
                    /\ calls[i].step = i - 1
                    /\ calls[i].params = Addressed(i - 1)
        /\ UnaddressedKept

\* one parameter set on the last of two steps: the first is called with nothing
C7_Witness ==
    /\ SetReturned
    /\ Len(_estimators) >= 2
    /\ Len(args.params) = 1
    /\ Addressed(Len(_estimators) - 1) # <<>>
    /\ Addressed(0) = <<>>
    /\ Len(calls) = Len(_estimators)
    /\ ParamsOf(est) # before

UnknownStepKey ==
    \E i \in 1..Len(args.params) : ~Registered(KeyStep(args.params[i][1]))

\* C10: a set_params whose mapping holds a key with an unregistered step
\* component raises the lookup error before any sub-estimator's set_params
\* is called: every sub-estimator keeps its parameters, valid keys in the
\* same call notwithstanding.
C10_LookupAllOrNothing ==
    (op = "set_params" /\ UnknownStepKey) =>
        /\ raised = "ValueError"
        /\ calls = <<>>
        /\ ParamsOf(est) = before

\* a valid key that would have changed a parameter, beside an unknown step
C10_Witness ==
    /\ op = "set_params" /\ UnknownStepKey /\ raised = "ValueError"
    /\ \E i \in 1..Len(args.params) :
          LET r == _get_step_param_name(args.params[i][1])
          IN  /\ r.step_ind >= 0
              /\ r.param_name = alpha
              /\ est[_estimators[r.step_ind + 1]].params[alpha] # args.params[i][2]

\* ---- fit
DistinctObjects ==
    \A i, j \in 1..Len(_estimators) : i # j => _estimators[i] # _estimators[j]

Fitted == op = "fit" /\ raised = "none"

ScopeOf(i) == _estimator_feature_indices[i]

\* coef_[scope_i] == estimator_i.coef_
C4_ScopeAgrees(i) ==
    [j \in 1..Len(ScopeOf(i)) |-> coef_[ScopeOf(i)[j] + 1]] = est[_estimators[i]].coef_

\* C4: after a successful fit on n_features columns, with a different
\* sub-estimator object in every step, coef_ at the places of scope i is
\* sub-estimator i's own coef_, every index below n_features was written
\* exactly once during the loop and no place still holds NaN.
C4_CoefAssembly ==
    (Fitted /\ DistinctObjects) =>
        /\ "coef_" \in attrs
        /\ Len(coef_) = NCols(args.X)
        /\ \A i \in 1..Len(_estimators) : C4_ScopeAgrees(i)
        /\ Len(writes) = NCols(args.X)
        /\ \A p \in 1..NCols(args.X) : writes[p] = 1 /\ coef_[p] # NaN

\* all the features, dealt to several steps in an order that is not sorted
C4_Witness ==
    /\ Fitted /\ DistinctObjects
    /\ Len(_estimators) >= 2
    /\ NCols(args.X) = MaxFeatures
    /\ Chain(_estimator_feature_indices) # Sorted(Chain(_estimator_feature_indices))

RECURSIVE EarlierPredictions(_, _)
\* the sum, at sample r, of what the predict calls of the steps before i returned
EarlierPredictions(i, r) ==
    IF i <= 1 THEN 0 ELSE calls[2 * (i - 1)].ret[r] + EarlierPredictions(i - 1, r)

\* C5: fit calls the sub-estimators' fit once per step, in step order, each
\* followed by that estimator's predict on its own columns; the target given
\* to step k is y minus the predictions returned for the steps before it,
\* so the first step is fitted against y itself.
C5_ResidualChain ==
    op = "fit" =>
        /\ raised = "none" => Len(calls) = 2 * Len(_estimators)
        /\ raised = "ValueError" => calls = <<>>
        /\ \A c \in 1..Len(calls) :
              LET i == (c + 1) \div 2 IN
              /\ i <= Len(_estimators)
              /\ calls[c].step = i - 1
              /\ calls[c].X = Cols(args.X, ScopeOf(i))
              /\ IF c % 2 = 1
                 THEN /\ calls[c].meth = "fit"
                      /\ calls[c].sample_weight = args.sample_weight
                      /\ calls[c].y =
                            [r \in 1..Len(args.y) |-> args.y[r] - EarlierPredictions(i, r)]
                 ELSE /\ calls[c].meth = "predict"
                      /\ DistinctObjects =>
                            calls[c].ret = est_predict(est[_estimators[i]], calls[c].X)

\* a fit over several steps whose second target differs from y
C5_Witness ==
    /\ Fitted
    /\ Len(_estimators) >= 2
    /\ Len(calls) = 2 * Len(_estimators)
    /\ calls[1].y = args.y
    /\ calls[3].y # args.y

RECURSIVE SumOfPredictions(_, _, _)
\* the sum over the steps up to i of estimator.predict(X[:, scope]), at sample r
SumOfPredictions(i, X, r) ==
    IF i = 0 THEN 0
    ELSE est_predict(est[_estimators[i]], Cols(X, ScopeOf(i)))[r]
         + SumOfPredictions(i - 1, X, r)

\* C6 as stated (for steps holding different objects): after a successful
\* fit the composite's X @ coef_ + intercept_ is the sum over the steps of
\* estimator.predict(X[:, scope]), for every X with n_features columns.
C6_PredictIsSum ==
    (Fitted /\ DistinctObjects) =>
        \A d \in Data(NCols(args.X)) :
            predict(d.X) =
                [r \in 1..Len(d.X) |-> SumOfPredictions(Len(_estimators), d.X, r)]

\* C8: a fit on an X whose column count the full scope does not cover raises
\* before any sub-estimator is called and leaves coef_, intercept_ and the
\* sub-estimators as they were; when the full scope is [0, X.shape[1]) the
\* coverage check does not raise.
C8_CoverageCheck ==
    [][op' = "fit" =>
          IF _full_scope' # Range(NCols(args'.X))
          THEN /\ raised' = "ValueError"
               /\ calls' = <<>>
               /\ UNCHANGED <<attrs, coef_, intercept_, est>>
          ELSE raised' # "ValueError"]_vars

\* a refused fit that found, and left, a complete earlier fit
C8_Witness ==
    /\ op = "fit" /\ raised = "ValueError" /\ calls = <<>>
    /\ attrs = {"coef_", "intercept_"}
    /\ Len(coef_) = Len(_full_scope)
    /\ Len(coef_) >= 2
    /\ Len(coef_) # NCols(args.X)
    /\ \A p \in 1..Len(coef_) : coef_[p] # NaN

\* C9 as stated (for steps holding different objects): in every state after
\* a successful construction, whatever get_params, set_params and fit calls
\* were made, every step but the first has fit_intercept False.
C9_InterceptSingularity ==
    (pc = "ready" /\ DistinctObjects) =>
        \A i \in 2..Len(_estimators) : FitIntercept(_estimators[i]) = FALSE

====
